---- MODULE Spec2Model ----
(***************************************************************************)
(* Job lifecycle of the video pipeline: the two submission routes          *)
(* (api/routes/jobs.py), the remote-download task, and                     *)
(* VideoProcessingPipeline.process / _run_pipeline (services/pipeline.py), *)
(* over the Job and JobLog tables (models/job.py) reached through          *)
(* session_scope (db/session.py) and the result files under result_dir.    *)
(*                                                                         *)
(* Every store call (one session_scope block) is one atomic step that      *)
(* either commits or raises and rolls back; every stage call and the       *)
(* artifact write either returns or raises.                                *)
(***************************************************************************)
EXTENDS Integers, Sequences, FiniteSets, TLC

\* The job ids in play (uuid4 values in the code); each is used by one request.
JobIds == {"j1", "j2"}

\* JobStatus
PENDING == "pending"
PROCESSING == "processing"
COMPLETED == "completed"
FAILED == "failed"

\* JobInputType
UPLOAD == "upload"
YOUTUBE == "youtube"

\* Optional[...] = None
None == <<>>

StagesReordered ==
    <<"extract", "transcribe", "analytics", "detect", "summarise">>

\* The stages of _run_pipeline, in source order.
Stages == <<"extract", "transcribe", "detect", "analytics", "summarise">>

VARIABLES
    jobs,        \* Job table: job id -> row, for the ids that have a row
    logs,        \* JobLog table, by job_id: the rows in insertion order
    artifact,    \* result_dir/<job_id>.json: "none", "partial" or "full"
    task,        \* the background task scheduled for the job id
    pc,          \* position of the request / background task of the job id
    stage,       \* index in Stages of the stage _run_pipeline is at
    exc,         \* message of the exception in flight or being handled
    proc,        \* state of the process(job_id) call: idle/running/returned/raised
    calls,       \* number of process(job_id) invocations so far
    source_path, \* _run_pipeline's local source_path
    invoked,     \* history: the stages invoked, in order
    firstExc,    \* history: message of the first exception raised inside process
    stageFail,   \* history: the stage that raised and the log length at that time
    args,        \* the arguments of the function under study
    result,      \* << >> before the call, <<returned value>> after it
    log_table,   \* JobLog rows with their created_at, in insertion order
    fetched,     \* what fetch_job_logs returned, per job id
    session      \* the Session of the job's task: "closed" or "open"

taskVars == <<jobs, logs, artifact, task, pc, stage, exc, proc, calls,
              source_path, invoked, firstExc, stageFail>>

jobVars == <<taskVars, session>>

callVars == <<args, result>>

logVars == <<log_table, fetched>>

vars == <<jobVars, callVars, logVars>>

----------------------------------------------------------------------------
\* Values

Terminal == {COMPLETED, FAILED}

\* Job(id=..., input_type=..., source=...): status defaults to PENDING,
\* error_message and result_path to None.
NewJob(job_id, input_type, source) ==
    [id |-> job_id, input_type |-> input_type, source |-> source,
     status |-> PENDING, error_message |-> None, result_path |-> None]

\* settings.result_dir / f"{job_id}.json"
ResultPath(job_id) == <<"result_dir", job_id, ".json">>

\* settings.upload_dir / f"{job_id}.mp4"
TargetPath(job_id) == <<"upload_dir", job_id, ".mp4">>

\* str(saved_path) of an upload
SavedPath(job_id) == <<"upload_dir", "upload.mp4">>

\* payload.url
RemoteUrl(job_id) == <<"https://", job_id>>

\* Exception messages
StoreError == <<"store call failed">>
WriteError == <<"result write failed">>
DownloadError == <<"No compatible MP4 stream found">>
StageError(k) == <<Stages[k], "failed">>
JobNotFound(job_id) == <<"Job ", job_id, " not found">>
JobMissing(job_id) == <<"Job ", job_id, " missing">>

\* Log messages; an f-string is the sequence of its pieces
MsgCreated(input_type) == <<"Job created for ", input_type>>
MsgDownloading == <<"Downloading YouTube video">>
MsgDownloaded == <<"YouTube video downloaded">>
MsgStarted == <<"Pipeline started">>
MsgCompleted == <<"Pipeline completed successfully">>
MsgFailed(e) == <<"Pipeline failed: ">> \o e
MsgYtFailed(e) == <<"YouTube download failed: ">> \o e

StageLogMessageSwapped(k) ==
    CASE Stages[k] = "extract" -> <<"Extracting audio track">>
      [] Stages[k] = "transcribe" -> <<"Running object detection">>
      [] Stages[k] = "detect" -> <<"Running speech transcription">>
      [] Stages[k] = "analytics" -> <<"Building analytics bundle">>
      [] Stages[k] = "summarise" -> <<"Generating summary">>

\* The entry _run_pipeline appends before stage k.
StageLogMessage(k) ==
    CASE Stages[k] = "extract" -> <<"Extracting audio track">>
      [] Stages[k] = "transcribe" -> <<"Running speech transcription">>
      [] Stages[k] = "detect" -> <<"Running object detection">>
      [] Stages[k] = "analytics" -> <<"Building analytics bundle">>
      [] Stages[k] = "summarise" -> <<"Generating summary">>

----------------------------------------------------------------------------
\* Store mutations (the body of one session_scope block)

MarkProcessingSkipped(job) == job

MarkProcessing(job) == [job EXCEPT !.status = PROCESSING]

MarkCompletedNoPath(job, result_path) == [job EXCEPT !.status = COMPLETED]

MarkCompleted(job, result_path) ==
    [job EXCEPT !.status = COMPLETED, !.result_path = result_path]

MarkFailedKeepsStatus(job, message) == [job EXCEPT !.error_message = message]

MarkFailedResets(job, message) ==
    [job EXCEPT !.status = PENDING, !.error_message = message]

MarkFailed(job, message) ==
    [job EXCEPT !.status = FAILED, !.error_message = message]

SetSourceIgnored(job, path) == job

SetSource(job, path) == [job EXCEPT !.source = path]

\* with session_scope() as session: job = session.get(Job, job_id);
\* if job: <mutation giving row>  -- committed
Update(J, job_id, row) ==
    IF job_id \in DOMAIN J THEN [J EXCEPT ![job_id] = row] ELSE J

add_job_log_any_job(L, job_id, message, level) ==
    [k \in DOMAIN L |-> Append(L[k], [level |-> level, message |-> message])]

\* session.add(JobLog(job_id=job_id, message=message, level=level)), committed
add_job_log(L, job_id, message, level) ==
    [L EXCEPT ![job_id] = Append(@, [level |-> level, message |-> message])]

----------------------------------------------------------------------------
\* Control flow

\* the statements of process inside its try block (lines 80-92)
InTry(l) ==
    l \in {"rp_read", "log_stage", "run_stage", "write", "p_complete",
           "p_log_completed"}

\* every statement of process
InProcess(l) ==
    InTry(l) \/ l \in {"p_start", "p_log_started", "h_update", "h_log"}

\* the statements of _download_and_process_youtube inside its try block
InYtTry(l) ==
    InProcess(l) \/ l \in {"yt_download", "yt_update", "yt_log_downloaded"}

RaiseTargetRestart(l, t) ==
    IF InTry(l) THEN "p_start"
    ELSE IF t = "download_and_process" /\ InYtTry(l) THEN "yh_update"
    ELSE "task_raised"

RaiseTargetRetry(l, t) ==
    IF l = "run_stage" THEN "log_stage"
    ELSE IF InTry(l) THEN "h_update"
    ELSE IF t = "download_and_process" /\ InYtTry(l) THEN "yh_update"
    ELSE "task_raised"

\* where an exception raised at l lands: the except clause of the innermost
\* enclosing try, or the background task's caller
RaiseTarget(l, t) ==
    IF InTry(l) THEN "h_update"
    ELSE IF t = "download_and_process" /\ InYtTry(l) THEN "yh_update"
    ELSE "task_raised"

\* an exception with the given message is raised at the current statement
Raise(j, message) ==
    /\ pc' = [pc EXCEPT ![j] = RaiseTarget(pc[j], task[j])]
    /\ exc' = [exc EXCEPT ![j] = message]
    /\ proc' = [proc EXCEPT ![j] =
                  IF InProcess(pc[j]) /\ ~InTry(pc[j]) THEN "raised" ELSE @]
    /\ firstExc' = [firstExc EXCEPT ![j] =
                      IF InProcess(pc[j]) /\ @ = None THEN message ELSE @]

\* the statement completes: control moves to l, the process call is in state p
Step(j, l, p) ==
    /\ pc' = [pc EXCEPT ![j] = l]
    /\ proc' = [proc EXCEPT ![j] = p]
    /\ UNCHANGED <<exc, firstExc>>

Goto(j, l) == Step(j, l, proc[j])

----------------------------------------------------------------------------
JobInit ==
    /\ jobs = << >>
    /\ logs = [j \in JobIds |-> << >>]
    /\ artifact = [j \in JobIds |-> "none"]
    /\ task = [j \in JobIds |-> "none"]
    /\ pc = [j \in JobIds |-> "new"]
    /\ stage = [j \in JobIds |-> 0]
    /\ exc = [j \in JobIds |-> None]
    /\ proc = [j \in JobIds |-> "idle"]
    /\ calls = [j \in JobIds |-> 0]
    /\ source_path = [j \in JobIds |-> None]
    /\ invoked = [j \in JobIds |-> << >>]
    /\ firstExc = [j \in JobIds |-> None]
    /\ stageFail = [j \in JobIds |-> [k |-> 0, n |-> 0]]
    /\ session = [j \in JobIds |-> "closed"]

\* no function call under study
CallIdle == args = None /\ result = None

\* empty JobLog table, nothing fetched
LogInit == log_table = << >> /\ fetched = [j \in JobIds |-> None]

Init == JobInit /\ CallIdle /\ LogInit

----------------------------------------------------------------------------
\* Submission routes

\* create_job: session.add(job) in one session, then add_job_log; when both
\* succeed the route schedules task t, which starts at statement first
CreateJob(j, input_type, source, t, first) ==
    \E addOk, logOk \in BOOLEAN :
        /\ jobs' = IF addOk THEN jobs @@ (j :> NewJob(j, input_type, source))
                   ELSE jobs
        /\ logs' = IF addOk /\ logOk
                   THEN add_job_log(logs, j, MsgCreated(input_type), "INFO")
                   ELSE logs
        /\ task' = IF addOk /\ logOk THEN [task EXCEPT ![j] = t] ELSE task
        /\ pc' = [pc EXCEPT ![j] =
                    IF addOk /\ logOk THEN first ELSE "request_failed"]
        /\ UNCHANGED <<artifact, stage, exc, proc, calls, source_path,
                       invoked, firstExc, stageFail>>

\* POST /jobs/upload: a 400 for a non-MP4 or oversized file, else create_job
\* and background_tasks.add_task(pipeline.process, job.id)
upload_video(j) ==
    /\ pc[j] = "new"
    /\ \E accepted \in BOOLEAN :
        IF accepted
        THEN CreateJob(j, UPLOAD, SavedPath(j), "process", "p_start")
        ELSE /\ pc' = [pc EXCEPT ![j] = "request_failed"]
             /\ UNCHANGED <<jobs, logs, artifact, task, stage, exc, proc,
                            calls, source_path, invoked, firstExc, stageFail>>

\* POST /jobs/youtube: a 403 when downloads are disabled, else create_job and
\* background_tasks.add_task(_download_and_process_youtube, url, job.id)
submit_youtube(j) ==
    /\ pc[j] = "new"
    /\ \E allowed \in BOOLEAN :
        IF allowed
        THEN CreateJob(j, YOUTUBE, RemoteUrl(j), "download_and_process",
                       "yt_log_downloading")
        ELSE /\ pc' = [pc EXCEPT ![j] = "request_failed"]
             /\ UNCHANGED <<jobs, logs, artifact, task, stage, exc, proc,
                            calls, source_path, invoked, firstExc, stageFail>>

----------------------------------------------------------------------------
\* _download_and_process_youtube

\* add_job_log(job_id, "Downloading YouTube video"), before the try
YtLogDownloading(j) ==
    /\ pc[j] = "yt_log_downloading"
    /\ \E ok \in BOOLEAN :
        IF ok
        THEN /\ logs' = add_job_log(logs, j, MsgDownloading, "INFO")
             /\ Goto(j, "yt_download")
        ELSE /\ Raise(j, StoreError)
             /\ UNCHANGED logs
    /\ UNCHANGED <<jobs, artifact, task, stage, calls, source_path, invoked,
                   stageFail>>

\* import pytube, pick the stream, download it, move it to target_path
YtDownload(j) ==
    /\ pc[j] = "yt_download"
    /\ \E ok \in BOOLEAN :
        IF ok THEN Goto(j, "yt_update") ELSE Raise(j, DownloadError)
    /\ UNCHANGED <<jobs, logs, artifact, task, stage, calls, source_path,
                   invoked, stageFail>>

\* job.source = str(target_path)
YtUpdateSource(j) ==
    /\ pc[j] = "yt_update"
    /\ \E ok \in BOOLEAN :
        IF ok
        THEN /\ jobs' = Update(jobs, j, SetSource(jobs[j], TargetPath(j)))
             /\ Goto(j, "yt_log_downloaded")
        ELSE /\ Raise(j, StoreError)
             /\ UNCHANGED jobs
    /\ UNCHANGED <<logs, artifact, task, stage, calls, source_path, invoked,
                   stageFail>>

\* add_job_log(job_id, "YouTube video downloaded"); then pipeline.process(job_id)
YtLogDownloaded(j) ==
    /\ pc[j] = "yt_log_downloaded"
    /\ \E ok \in BOOLEAN :
        IF ok
        THEN /\ logs' = add_job_log(logs, j, MsgDownloaded, "INFO")
             /\ Goto(j, "p_start")
        ELSE /\ Raise(j, StoreError)
             /\ UNCHANGED logs
    /\ UNCHANGED <<jobs, artifact, task, stage, calls, source_path, invoked,
                   stageFail>>

\* except Exception as exc: mark the job failed with str(exc)
YtHandlerUpdate(j) ==
    /\ pc[j] = "yh_update"
    /\ \E ok \in BOOLEAN :
        IF ok
        THEN /\ jobs' = Update(jobs, j, MarkFailed(jobs[j], exc[j]))
             /\ Goto(j, "yh_log")
        ELSE /\ Raise(j, StoreError)
             /\ UNCHANGED jobs
    /\ UNCHANGED <<logs, artifact, task, stage, calls, source_path, invoked,
                   stageFail>>

\* add_job_log(job_id, f"YouTube download failed: {exc}", level="ERROR"); raise
YtHandlerLog(j) ==
    /\ pc[j] = "yh_log"
    /\ \E ok \in BOOLEAN :
        IF ok
        THEN /\ logs' = add_job_log(logs, j, MsgYtFailed(exc[j]), "ERROR")
             /\ Goto(j, "task_raised")
        ELSE /\ Raise(j, StoreError)
             /\ UNCHANGED logs
    /\ UNCHANGED <<jobs, artifact, task, stage, calls, source_path, invoked,
                   stageFail>>

----------------------------------------------------------------------------
\* VideoProcessingPipeline.process

\* entry: job = session.get(Job, job_id); raise ValueError if absent;
\* job.status = PROCESSING (lines 72-77, outside the try)
PStart(j) ==
    /\ pc[j] = "p_start"
    /\ calls' = [calls EXCEPT ![j] = @ + 1]
    /\ \E ok \in BOOLEAN :
        IF j \notin DOMAIN jobs
        THEN /\ Raise(j, JobNotFound(j))
             /\ UNCHANGED jobs
        ELSE IF ok
        THEN /\ jobs' = Update(jobs, j, MarkProcessing(jobs[j]))
             /\ Step(j, "p_log_started", "running")
        ELSE /\ Raise(j, StoreError)
             /\ UNCHANGED jobs
    /\ UNCHANGED <<logs, artifact, task, stage, source_path, invoked,
                   stageFail>>

\* add_job_log(job_id, "Pipeline started") (line 78, outside the try)
PLogStarted(j) ==
    /\ pc[j] = "p_log_started"
    /\ \E ok \in BOOLEAN :
        IF ok
        THEN /\ logs' = add_job_log(logs, j, MsgStarted, "INFO")
             /\ Goto(j, "rp_read")
        ELSE /\ Raise(j, StoreError)
             /\ UNCHANGED logs
    /\ UNCHANGED <<jobs, artifact, task, stage, calls, source_path, invoked,
                   stageFail>>

\* _run_pipeline: source_path = Path(job.source) read in its own session
RpReadSource(j) ==
    /\ pc[j] = "rp_read"
    /\ \E ok \in BOOLEAN :
        IF j \notin DOMAIN jobs
        THEN /\ Raise(j, JobMissing(j))
             /\ UNCHANGED <<source_path, stage>>
        ELSE IF ok
        THEN /\ source_path' = [source_path EXCEPT ![j] = jobs[j].source]
             /\ stage' = [stage EXCEPT ![j] = 1]
             /\ Goto(j, "log_stage")
        ELSE /\ Raise(j, StoreError)
             /\ UNCHANGED <<source_path, stage>>
    /\ UNCHANGED <<jobs, logs, artifact, task, calls, invoked, stageFail>>

\* add_job_log(job_id, <stage message>) before the stage
LogStage(j) ==
    /\ pc[j] = "log_stage"
    /\ \E ok \in BOOLEAN :
        IF ok
        THEN /\ logs' = add_job_log(logs, j, StageLogMessage(stage[j]), "INFO")
             /\ Goto(j, "run_stage")
        ELSE /\ Raise(j, StoreError)
             /\ UNCHANGED logs
    /\ UNCHANGED <<jobs, artifact, task, stage, calls, source_path, invoked,
                   stageFail>>

\* the stage call: extract / transcribe / detect / build_timeline and
\* build_analytics_bundle / summarise; it returns or raises
RunStage(j) ==
    /\ pc[j] = "run_stage"
    /\ invoked' = [invoked EXCEPT ![j] = Append(@, stage[j])]
    /\ \E ok \in BOOLEAN :
        IF ok
        THEN /\ IF stage[j] < Len(Stages)
                THEN /\ stage' = [stage EXCEPT ![j] = @ + 1]
                     /\ Goto(j, "log_stage")
                ELSE /\ Goto(j, "write")
                     /\ UNCHANGED stage
             /\ UNCHANGED stageFail
        ELSE /\ Raise(j, StageError(stage[j]))
             /\ stageFail' = [stageFail EXCEPT ![j] =
                                [k |-> stage[j], n |-> Len(logs[j])]]
             /\ UNCHANGED stage
    /\ UNCHANGED <<jobs, logs, artifact, task, calls, source_path>>

\* result_path.open("w") and json.dump(result.dict(), fp): open may raise
\* (no file), the dump may raise after the file was created (a partial file)
WriteResult(j) ==
    /\ pc[j] = "write"
    /\ \E outcome \in {"open_failed", "dump_failed", "written"} :
        CASE outcome = "written" ->
               /\ artifact' = [artifact EXCEPT ![j] = "full"]
               /\ Goto(j, "p_complete")
          [] outcome = "dump_failed" ->
               /\ artifact' = [artifact EXCEPT ![j] = "partial"]
               /\ Raise(j, WriteError)
          [] outcome = "open_failed" ->
               /\ UNCHANGED artifact
               /\ Raise(j, WriteError)
    /\ UNCHANGED <<jobs, logs, task, stage, calls, source_path, invoked,
                   stageFail>>

\* job.status = COMPLETED; job.result_path = str(result_path) (lines 86-91)
PComplete(j) ==
    /\ pc[j] = "p_complete"
    /\ \E ok \in BOOLEAN :
        IF ok
        THEN /\ jobs' = Update(jobs, j, MarkCompleted(jobs[j], ResultPath(j)))
             /\ Goto(j, "p_log_completed")
        ELSE /\ Raise(j, StoreError)
             /\ UNCHANGED jobs
    /\ UNCHANGED <<logs, artifact, task, stage, calls, source_path, invoked,
                   stageFail>>

\* add_job_log(job_id, "Pipeline completed successfully"); process returns
PLogCompleted(j) ==
    /\ pc[j] = "p_log_completed"
    /\ \E ok \in BOOLEAN :
        IF ok
        THEN /\ logs' = add_job_log(logs, j, MsgCompleted, "INFO")
             /\ Step(j, "task_done", "returned")
        ELSE /\ Raise(j, StoreError)
             /\ UNCHANGED logs
    /\ UNCHANGED <<jobs, artifact, task, stage, calls, source_path, invoked,
                   stageFail>>

\* except Exception as exc: job.status = FAILED; job.error_message = str(exc)
HandlerUpdate(j) ==
    /\ pc[j] = "h_update"
    /\ \E ok \in BOOLEAN :
        IF ok
        THEN /\ jobs' = Update(jobs, j, MarkFailed(jobs[j], exc[j]))
             /\ Goto(j, "h_log")
        ELSE /\ Raise(j, StoreError)
             /\ UNCHANGED jobs
    /\ UNCHANGED <<logs, artifact, task, stage, calls, source_path, invoked,
                   stageFail>>

\* add_job_log(job_id, f"Pipeline failed: {exc}", level="ERROR"); process returns
HandlerLog(j) ==
    /\ pc[j] = "h_log"
    /\ \E ok \in BOOLEAN :
        IF ok
        THEN /\ logs' = add_job_log(logs, j, MsgFailed(exc[j]), "ERROR")
             /\ Step(j, "task_done", "returned")
        ELSE /\ Raise(j, StoreError)
             /\ UNCHANGED logs
    /\ UNCHANGED <<jobs, artifact, task, stage, calls, source_path, invoked,
                   stageFail>>

----------------------------------------------------------------------------
JobNext ==
    \E j \in JobIds :
        \/ upload_video(j)
        \/ submit_youtube(j)
        \/ YtLogDownloading(j)
        \/ YtDownload(j)
        \/ YtUpdateSource(j)
        \/ YtLogDownloaded(j)
        \/ YtHandlerUpdate(j)
        \/ YtHandlerLog(j)
        \/ PStart(j)
        \/ PLogStarted(j)
        \/ RpReadSource(j)
        \/ LogStage(j)
        \/ RunStage(j)
        \/ WriteResult(j)
        \/ PComplete(j)
        \/ PLogCompleted(j)
        \/ HandlerUpdate(j)
        \/ HandlerLog(j)

\* every store call taken as one step, sessions not followed
Next == JobNext /\ UNCHANGED <<callVars, logVars, session>>

Spec == Init /\ [][Next]_vars

----------------------------------------------------------------------------
\* session_scope followed step by step

\* the statements that are one "with session_scope()" block or one
\* add_job_log call (which is such a block)
StoreStatements ==
    {"yt_log_downloading", "yt_update", "yt_log_downloaded", "yh_update",
     "yh_log", "p_start", "p_log_started", "rp_read", "log_stage",
     "p_complete", "p_log_completed", "h_update", "h_log"}

\* the statements that block: the download, a stage, the artifact write
BlockingStatements == {"yt_download", "run_stage", "write"}

session_scope_unclosed(outcome) ==
    IF outcome = "returned" THEN "open" ELSE "closed"

\* the Session when the with block is left: commit, or rollback and raise,
\* and in both cases "finally: session.close()"
session_scope(outcome) == "closed"

\* session = Session(_engine)
OpenSession(j) ==
    /\ pc[j] \in StoreStatements
    /\ session[j] = "closed"
    /\ session' = [session EXCEPT ![j] = "open"]
    /\ UNCHANGED taskVars

\* the body of the with block and its exit
InSession(j) ==
    /\ session[j] = "open"
    /\ \/ YtLogDownloading(j)
       \/ YtUpdateSource(j)
       \/ YtLogDownloaded(j)
       \/ YtHandlerUpdate(j)
       \/ YtHandlerLog(j)
       \/ PStart(j)
       \/ PLogStarted(j)
       \/ RpReadSource(j)
       \/ LogStage(j)
       \/ PComplete(j)
       \/ PLogCompleted(j)
       \/ HandlerUpdate(j)
       \/ HandlerLog(j)
    /\ session' = [session EXCEPT ![j] =
                      session_scope(IF pc'[j] = RaiseTarget(pc[j], task[j])
                                    THEN "raised" ELSE "returned")]

\* the requests, and the statements outside every with block
OutsideSession(j) ==
    /\ session[j] = "closed"
    /\ \/ upload_video(j)
       \/ submit_youtube(j)
       \/ YtDownload(j)
       \/ RunStage(j)
       \/ WriteResult(j)
    /\ UNCHANGED session

NextSession ==
    /\ \E j \in JobIds : OpenSession(j) \/ InSession(j) \/ OutsideSession(j)
    /\ UNCHANGED <<callVars, logVars>>

SpecSession == Init /\ [][NextSession]_vars

----------------------------------------------------------------------------
\* VideoProcessingPipeline._build_default_components

\* how constructing a production component can go: the library imports and
\* the model/client loads, the import fails, or the load fails
LibStates == {"ok", "import_error", "load_error"}

\* settings.openai_api_key: None, empty, or a key
NoKey == "<None>"

ApiKeys == {NoKey, "", "sk-key"}

Envs ==
    [whisper : LibStates, ultralytics : LibStates, openai : LibStates,
     openai_api_key : ApiKeys]

Raised == "raised"

\* WhisperTranscriber.__init__: import whisper, whisper.load_model
WhisperTranscriber(e) ==
    IF e.whisper = "ok" THEN "WhisperTranscriber" ELSE Raised

\* UltralyticsDetector.__init__: import ultralytics, YOLO(model_name)
UltralyticsDetector(e) ==
    IF e.ultralytics = "ok" THEN "UltralyticsDetector" ELSE Raised

\* OpenAISummariser.__init__: import openai, OpenAI(api_key=api_key)
OpenAISummariser(e) ==
    IF e.openai = "ok" THEN "OpenAISummariser" ELSE Raised

TryOrStubUncaught(built, stub) == built

\* try: <construct> except Exception: <stub>
TryOrStub(built, stub) == IF built = Raised THEN stub ELSE built

\* the PipelineComponents the function returns; a field is Raised when its
\* constructor's exception was not caught (the function then raises)
build_default_components(e) ==
    [audio_extractor |-> "AudioExtractor",
     transcriber |-> TryOrStub(WhisperTranscriber(e), "StubTranscriber"),
     detector |-> TryOrStub(UltralyticsDetector(e), "StubDetector"),
     summariser |->
        IF e.openai_api_key \notin {NoKey, ""}
        THEN TryOrStub(OpenAISummariser(e), "StubSummariser")
        ELSE "StubSummariser"]

InitBuild == JobInit /\ LogInit /\ args \in Envs /\ result = None

BuildComponents ==
    /\ result = None
    /\ result' = <<build_default_components(args)>>
    /\ UNCHANGED <<args, jobVars, logVars>>

SpecBuild == InitBuild /\ [][BuildComponents]_vars

----------------------------------------------------------------------------
\* Analytics (services/analytics.py): pure functions. Times are whole
\* seconds; a dict or Counter is the sequence of its (label, count) items in
\* insertion order.

\* longest transcript and detection list drawn for build_timeline
MaxSegs == 2

MaxDets == 2

SeqsUpTo(S, n) == UNION {[1..k -> S] : k \in 0..n}

Labels == {"ant", "cat", "dog"}

\* TranscriptSegment(start, end, text), start <= end
TimelineSegments ==
    {[start |-> 1, end |-> 2, text |-> t] : t \in {"first", "other"}}
        \cup {[start |-> 2, end |-> 2, text |-> t] : t \in {"first", "other"}}

\* ObjectDetection(timestamp, label, ...)
TimelineDetections == [timestamp : 0..3, label : {"cat", "dog"}]

\* settings.timeline_window
Windows == {0, 1, 2}

\* counter[label] += 1
CounterAdd(counter, label) ==
    IF \E i \in 1..Len(counter) : counter[i].label = label
    THEN [i \in 1..Len(counter) |->
            IF counter[i].label = label
            THEN [counter[i] EXCEPT !.count = @ + 1]
            ELSE counter[i]]
    ELSE Append(counter, [label |-> label, count |-> 1])

RECURSIVE Counter(_)
\* Counter(iterable of labels): items in first-seen order
Counter(labels) ==
    IF labels = << >> THEN << >>
    ELSE CounterAdd(Counter(SubSeq(labels, 1, Len(labels) - 1)),
                    labels[Len(labels)])

\* dict.get(label, 0)
Get(dict, label) ==
    IF \E i \in 1..Len(dict) : dict[i].label = label
    THEN dict[CHOOSE i \in 1..Len(dict) : dict[i].label = label].count
    ELSE 0

InWindowExclusive(segment, detection, window) ==
    /\ 2 * segment.start - window < 2 * detection.timestamp
    /\ 2 * detection.timestamp < 2 * segment.end + window

\* start <= detection.timestamp <= end, with start = segment.start - window / 2
\* and end = segment.end + window / 2 (true division; both sides are doubled
\* here to stay in the integers)
InWindow(segment, detection, window) ==
    /\ 2 * segment.start - window <= 2 * detection.timestamp
    /\ 2 * detection.timestamp <= 2 * segment.end + window

\* [det.label for det in detections if start <= det.timestamp <= end]
WindowLabels(segment, detections, window) ==
    LET kept == SelectSeq(detections,
                          LAMBDA d : InWindow(segment, d, window))
    IN  [i \in 1..Len(kept) |-> kept[i].label]

build_timeline(transcript, detections, window) ==
    [i \in 1..Len(transcript) |->
        [timestamp |-> transcript[i].start,
         transcript |-> transcript[i].text,
         objects |-> Counter(WindowLabels(transcript[i], detections, window))]]

InitTimeline ==
    /\ JobInit /\ LogInit
    /\ args \in [transcript : SeqsUpTo(TimelineSegments, MaxSegs),
                 detections : SeqsUpTo(TimelineDetections, MaxDets),
                 window : Windows]
    /\ result = None

ApplyBuildTimeline ==
    /\ result = None
    /\ result' = <<build_timeline(args.transcript, args.detections,
                                 args.window)>>
    /\ UNCHANGED <<args, jobVars, logVars>>

SpecTimeline == InitTimeline /\ [][ApplyBuildTimeline]_vars

\* longest detection list drawn for compute_object_frequency
MaxFreqDets == 4

FrequencyDetections == [timestamp : {0}, label : Labels]

InsertByCountBeforeTies(sorted, item) ==
    LET ahead == {i \in 1..Len(sorted) : sorted[i].count > item.count}
        n == Cardinality(ahead)
    IN  SubSeq(sorted, 1, n) \o <<item>> \o SubSeq(sorted, n + 1, Len(sorted))

\* one step of the stable descending sort: the item goes after every item
\* whose count is at least its own
InsertByCount(sorted, item) ==
    LET ahead == {i \in 1..Len(sorted) : sorted[i].count >= item.count}
        n == Cardinality(ahead)
    IN  SubSeq(sorted, 1, n) \o <<item>> \o SubSeq(sorted, n + 1, Len(sorted))

RECURSIVE most_common(_)
\* Counter.most_common(): sorted(items, key=count, reverse=True), which is
\* stable, so equal counts keep the counter's insertion order
most_common(counter) ==
    IF counter = << >> THEN << >>
    ELSE InsertByCount(most_common(SubSeq(counter, 1, Len(counter) - 1)),
                       counter[Len(counter)])

\* [ObjectFrequency(label=label, count=count) for label, count in ...]
compute_object_frequency(detections) ==
    most_common(Counter([i \in 1..Len(detections) |-> detections[i].label]))

InitFrequency ==
    /\ JobInit /\ LogInit
    /\ args \in [detections : SeqsUpTo(FrequencyDetections, MaxFreqDets)]
    /\ result = None

ApplyObjectFrequency ==
    /\ result = None
    /\ result' = <<compute_object_frequency(args.detections)>>
    /\ UNCHANGED <<args, jobVars, logVars>>

SpecFrequency == InitFrequency /\ [][ApplyObjectFrequency]_vars

\* longest timeline drawn for compute_co_occurrence
MaxEntries == 2

\* the labels in the order Python's string comparison puts them
SortedLabels == <<"ant", "cat", "dog">>

CoCounts == {0, 1, 2}

\* TimelineEntry.objects: a dict in insertion order, keys distinct; at most
\* one count of a drawn dict differs from 1
CoDicts ==
    {d \in SeqsUpTo([label : Labels, count : CoCounts], 3) :
        /\ \A i, k \in 1..Len(d) : d[i].label = d[k].label => i = k
        /\ Cardinality({i \in 1..Len(d) : d[i].count # 1}) <= 1}

CoEntries == [timestamp : {0}, transcript : {"text"}, objects : CoDicts]

PositiveLabelsAll(objects) == [i \in 1..Len(objects) |-> objects[i].label]

\* [label for label, count in entry.objects.items() if count > 0]
PositiveLabels(objects) ==
    LET Positive(item) == item.count > 0
        kept == SelectSeq(objects, Positive)
    IN  [i \in 1..Len(kept) |-> kept[i].label]

sorted_set_unsorted(labels) == labels

\* sorted(set(labels))
sorted_set(labels) ==
    LET Member(l) == \E i \in 1..Len(labels) : labels[i] = l
    IN  SelectSeq(SortedLabels, Member)

RECURSIVE combinations2(_)
\* itertools.combinations(seq, 2): pairs of positions i < k, lexicographic
combinations2(seq) ==
    IF Len(seq) < 2 THEN << >>
    ELSE [k \in 1..(Len(seq) - 1) |-> <<seq[1], seq[k + 1]>>]
            \o combinations2(Tail(seq))

RECURSIVE PairKeys(_)
\* the keys incremented by the two loops of compute_co_occurrence, in order
PairKeys(timeline) ==
    IF timeline = << >> THEN << >>
    ELSE combinations2(sorted_set(PositiveLabels(timeline[1].objects)))
            \o PairKeys(Tail(timeline))

compute_co_occurrence(timeline) ==
    LET ranked == most_common(Counter(PairKeys(timeline)))
    IN  [i \in 1..Len(ranked) |->
            [labels |-> ranked[i].label, count |-> ranked[i].count]]

InitCoOccurrence ==
    /\ JobInit /\ LogInit
    /\ args \in [timeline : SeqsUpTo(CoEntries, MaxEntries)]
    /\ result = None

ApplyCoOccurrence ==
    /\ result = None
    /\ result' = <<compute_co_occurrence(args.timeline)>>
    /\ UNCHANGED <<args, jobVars, logVars>>

SpecCoOccurrence == InitCoOccurrence /\ [][ApplyCoOccurrence]_vars

\* longest transcript drawn for compute_sentiment
MaxSentSegs == 2

\* A text is a sequence of fragments; the fragment " " is whitespace and a
\* token is a maximal run of the other fragments, so <<"good", "ness">> is
\* the one token "goodness".
Whitespace == {" "}

SentimentTexts ==
    { << >>,
      <<"day">>,
      <<"Good", " ", "day">>,
      <<"good", " ", "great">>,
      <<"bad", " ", "day">>,
      <<" ", "sad", " ", " ">>,
      <<"GREAT", " ", "loss">>,
      <<"good", "ness">> }

SentimentSegments == [start : {0, 1}, end : {2}, text : SentimentTexts]

LowerSkipped(fragment) == fragment

\* str.lower() on one fragment
Lower(fragment) ==
    CASE fragment = "Good" -> "good"
      [] fragment = "GREAT" -> "great"
      [] OTHER -> fragment

lower(text) == [i \in 1..Len(text) |-> Lower(text[i])]

RECURSIVE split_from(_, _)
\* str.split() continued with a token in progress
split_from(text, current) ==
    LET done == IF current = << >> THEN << >> ELSE <<current>>
    IN  IF text = << >> THEN done
        ELSE IF Head(text) \in Whitespace
             THEN done \o split_from(Tail(text), << >>)
             ELSE split_from(Tail(text), Append(current, Head(text)))

\* str.split(): the tokens between runs of whitespace, none of them empty
split(text) == split_from(text, << >>)

positive_keywords ==
    {<<"good">>, <<"great">>, <<"excellent">>, <<"happy">>, <<"success">>,
     <<"win">>}

negative_keywords ==
    {<<"bad">>, <<"poor">>, <<"sad">>, <<"fail">>, <<"loss">>, <<"danger">>}

\* 0.6 in tenths; 0.0 + 0.6 - 0.6 is exactly 0.0 in binary floating point
KeywordWeight == 6

\* the score of one segment, in tenths
Score(text) ==
    LET tokens == split(lower(text))
        words == {tokens[i] : i \in 1..Len(tokens)}
        plus == IF words \cap positive_keywords # {} THEN KeywordWeight ELSE 0
        minus == IF words \cap negative_keywords # {} THEN KeywordWeight ELSE 0
    IN  0 + plus - minus

compute_sentiment(transcript) ==
    [i \in 1..Len(transcript) |->
        [timestamp |-> transcript[i].start,
         sentiment |-> Score(transcript[i].text)]]

InitSentiment ==
    /\ JobInit /\ LogInit
    /\ args \in [transcript : SeqsUpTo(SentimentSegments, MaxSentSegs)]
    /\ result = None

ApplySentiment ==
    /\ result = None
    /\ result' = <<compute_sentiment(args.transcript)>>
    /\ UNCHANGED <<args, jobVars, logVars>>

SpecSentiment == InitSentiment /\ [][ApplySentiment]_vars

\* most rows the JobLog table receives
MaxLogRows == 3

\* values datetime.utcnow() returns; the wall clock may repeat a value or be
\* set back between two appends
LogTimes == {1, 2}

\* JobLog(job_id=..., ...) with the primary key and created_at it is given
JobLogRow(table, job_id, now) ==
    [id |-> Len(table) + 1, job_id |-> job_id, created_at |-> now]

\* .where(JobLog.job_id == job_id)
Where(table, job_id) ==
    LET Mine(row) == row.job_id = job_id
    IN  SelectSeq(table, Mine)

\* .order_by(JobLog.created_at.asc()): every arrangement of the rows with
\* created_at non-decreasing; the order of rows with equal created_at is
\* left to the database
OrderByCreatedAt(rows) ==
    LET n == Len(rows)
        arrangements == {p \in [1..n -> 1..n] :
                            \A a, b \in 1..n : p[a] = p[b] => a = b}
    IN  {[i \in 1..n |-> rows[p[i]]] : p \in
            {q \in arrangements :
                \A a, b \in 1..n :
                    a < b => rows[q[a]].created_at <= rows[q[b]].created_at}}

\* the lists fetch_job_logs(job_id) can return
fetch_job_logs(table, job_id) == OrderByCreatedAt(Where(table, job_id))

\* add_job_log commits one row stamped with the current time
AppendLog ==
    /\ Len(log_table) < MaxLogRows
    /\ \E j \in JobIds, now \in LogTimes :
          log_table' = Append(log_table, JobLogRow(log_table, j, now))
    /\ UNCHANGED <<fetched, jobVars, callVars>>

FetchLogs ==
    /\ \E j \in JobIds :
          \E rows \in fetch_job_logs(log_table, j) :
              fetched' = [fetched EXCEPT ![j] = <<rows>>]
    /\ UNCHANGED <<log_table, jobVars, callVars>>

NextLogs == AppendLog \/ FetchLogs

SpecLogs == Init /\ [][NextLogs]_vars

\* Arguments drawn for build_analytics_bundle. The optional timeline argument
\* is None when it is not given and <<list>> when a list is given, so that
\* an empty list given differs from no list given.
BundleSegments == [start : {1}, end : {2}, text : {<<"Good">>, <<"day">>}]

BundleDetections == [timestamp : {1, 5}, label : {"cat", "dog"}]

BundleWindows == {1}

BundleObjects ==
    { << >>,
      << [label |-> "cat", count |-> 1], [label |-> "dog", count |-> 1] >>,
      << [label |-> "cat", count |-> 1], [label |-> "ant", count |-> 1] >> }

BundleTimelines ==
    {<< >>} \cup {<<[timestamp |-> 1, transcript |-> <<"day">>,
                     objects |-> o]>> : o \in BundleObjects}

\* bool(timeline): false for None and for the empty list
Truthy(timeline) == timeline # None /\ timeline[1] # << >>

\* how often "timeline or build_timeline(...)" evaluates its right operand
build_timeline_calls(timeline) == IF Truthy(timeline) THEN 0 ELSE 1

\* timeline = timeline or build_timeline(transcript, detections, window)
timeline_or_build(transcript, detections, window, timeline) ==
    IF Truthy(timeline) THEN timeline[1]
    ELSE build_timeline(transcript, detections, window)

build_analytics_bundle(transcript, detections, window, timeline) ==
    LET used == timeline_or_build(transcript, detections, window, timeline)
    IN  [object_frequency |-> compute_object_frequency(detections),
         co_occurrence |-> compute_co_occurrence(used),
         sentiment_trend |-> compute_sentiment(transcript)]

InitBundle ==
    /\ JobInit /\ LogInit
    /\ args \in [transcript : SeqsUpTo(BundleSegments, MaxSegs),
                 detections : SeqsUpTo(BundleDetections, MaxDets),
                 window : BundleWindows,
                 timeline : {None} \cup {<<t>> : t \in BundleTimelines}]
    /\ result = None

\* the result holds the bundle returned and the number of build_timeline
\* calls the call made
ApplyBuildBundle ==
    /\ result = None
    /\ result' = <<build_analytics_bundle(args.transcript, args.detections,
                                          args.window, args.timeline),
                   build_timeline_calls(args.timeline)>>
    /\ UNCHANGED <<args, jobVars, logVars>>

SpecBundle == InitBundle /\ [][ApplyBuildBundle]_vars

----------------------------------------------------------------------------
\* Views used by the properties

Exists(j) == j \in DOMAIN jobs

StatusOf(j) == IF Exists(j) THEN jobs[j].status ELSE "absent"

\* the rows of job j that process appends (all but the route's and the
\* download task's)
ProcLog(j) ==
    SelectSeq(logs[j], LAMBDA e :
        /\ e.message # MsgCreated(UPLOAD)
        /\ e.message # MsgCreated(YOUTUBE)
        /\ e.message # MsgDownloading
        /\ e.message # MsgDownloaded
        /\ e.message[1] # "YouTube download failed: ")

IsPrefix(s, t) == Len(s) <= Len(t) /\ s = SubSeq(t, 1, Len(s))

Info(m) == [level |-> "INFO", message |-> m]

Error(m) == [level |-> "ERROR", message |-> m]

HasError(j) == \E i \in 1..Len(logs[j]) : logs[j][i].level = "ERROR"

\* what of job j is observable from outside: its row, its log, its result file
JobView(j) == <<IF Exists(j) THEN {jobs[j]} ELSE {}, logs[j], artifact[j]>>

----------------------------------------------------------------------------
\* C1: whenever process(job_id) has returned, the job's row exists and its
\* status is completed or failed, never pending or processing, whichever stage
\* failed or if none did.
C1_ReturnedIsTerminal ==
    \A j \in JobIds :
        proc[j] = "returned" => Exists(j) /\ jobs[j].status \in Terminal

\* C1 witness: one job returned completed and another returned failed after a
\* stage raised.
C1_Witness ==
    \E a, b \in JobIds :
        /\ proc[a] = "returned" /\ StatusOf(a) = COMPLETED
        /\ proc[b] = "returned" /\ StatusOf(b) = FAILED /\ stageFail[b].k > 0

\* C2: process never throws past its own boundary: no call of process ends by
\* raising to its caller.
C2_ProcessNeverRaises == \A j \in JobIds : proc[j] # "raised"

\* C3: terminal states are absorbing: once a job is completed or failed, no
\* step changes its status, its result_path or its error_message.
C3_TerminalAbsorbing ==
    [][\A j \in JobIds :
          (Exists(j) /\ jobs[j].status \in Terminal) =>
              /\ jobs'[j].status = jobs[j].status
              /\ jobs'[j].result_path = jobs[j].result_path
              /\ jobs'[j].error_message = jobs[j].error_message]_vars

C5_FieldsMatchStatus ==
    \A j \in JobIds :
        Exists(j) =>
            /\ (jobs[j].result_path # None) <=> (jobs[j].status = COMPLETED)
            /\ (jobs[j].error_message # None) <=> (jobs[j].status = FAILED)

\* C6: a failed job has no result artifact at result_dir/<job_id>.json and its
\* result_path is unset.
C6_FailedHasNoArtifact ==
    \A j \in JobIds :
        StatusOf(j) = FAILED =>
            artifact[j] = "none" /\ jobs[j].result_path = None

\* C7: once a step inside process has raised and the call is over, the job is
\* failed, its error_message is the raised exception's message and its log
\* holds an ERROR entry.
C7_RaiseMarksFailed ==
    \A j \in JobIds :
        (firstExc[j] # None /\ proc[j] \in {"returned", "raised"}) =>
            /\ StatusOf(j) = FAILED
            /\ jobs[j].error_message = firstExc[j]
            /\ HasError(j)

\* C8: when stage k raises, the stages invoked are exactly 1..k (none after
\* k), and at most one entry is appended after the failure: the ERROR entry
\* reporting it; no stage-start entry follows.
C8_FailureAbortsStages ==
    \A j \in JobIds :
        stageFail[j].k > 0 =>
            /\ invoked[j] = [i \in 1..stageFail[j].k |-> i]
            /\ Len(logs[j]) <= stageFail[j].n + 1
            /\ \A i \in (stageFail[j].n + 1)..Len(logs[j]) :
                  /\ logs[j][i].level = "ERROR"
                  /\ logs[j][i].message[1] \in
                        {"Pipeline failed: ", "YouTube download failed: "}

\* C8 witness: a stage before the last one raised, process handled it and
\* returned, and the failure entry is the one entry after it.
C8_Witness ==
    \E j \in JobIds :
        /\ stageFail[j].k \in 1..(Len(Stages) - 1)
        /\ proc[j] = "returned"
        /\ Len(logs[j]) = stageFail[j].n + 1

\* everything a step of job j's request or task reads or writes
LocalState(j) ==
    <<JobView(j), task[j], pc[j], stage[j], exc[j], proc[j], calls[j],
      source_path[j]>>

\* C9: a step of one job's request or task, succeeding or failing, leaves
\* every other job's row (status, error_message, result_path), log entries,
\* result artifact and position unchanged, so each job's outcome is the one
\* its own run produces.
C9_JobsIsolated ==
    [][\A a, b \in JobIds :
          (a # b /\ pc'[a] # pc[a]) => LocalState(b)' = LocalState(b)]_vars

\* C9 witness: job a failed at a stage while job b, run alongside, completed
\* with its full log and artifact.
C9_Witness ==
    \E a, b \in JobIds :
        /\ a # b
        /\ StatusOf(a) = FAILED /\ stageFail[a].k > 0
        /\ StatusOf(b) = COMPLETED /\ artifact[b] = "full"
        /\ proc[b] = "returned" /\ jobs[b].error_message = None

\* the seven entries of a successful run, in order
SuccessEntries ==
    << Info(<<"Pipeline started">>),
       Info(<<"Extracting audio track">>),
       Info(<<"Running speech transcription">>),
       Info(<<"Running object detection">>),
       Info(<<"Building analytics bundle">>),
       Info(<<"Generating summary">>),
       Info(<<"Pipeline completed successfully">>) >>

C11_CompletedHasArtifact ==
    /\ [](\A j \in JobIds :
            StatusOf(j) = COMPLETED =>
                /\ jobs[j].result_path = <<"result_dir", j, ".json">>
                /\ artifact[j] = "full")
    /\ [][\A j \in JobIds :
            artifact'[j] # artifact[j] =>
                artifact[j] = "none" /\ pc[j] = "write"]_vars

\* C11 witness: a job is completed with its artifact written.
C11_Witness ==
    \E j \in JobIds :
        /\ StatusOf(j) = COMPLETED
        /\ artifact[j] = "full"
        /\ proc[j] = "returned"

\* C12: once the task that invoked process(job_id) has ended, the job is
\* completed or failed: no execution leaves it pending or processing for ever.
C12_EndsTerminal ==
    \A j \in JobIds :
        (calls[j] > 0 /\ pc[j] \in {"task_done", "task_raised"}) =>
            StatusOf(j) \in Terminal

\* the names of the stages invoked for job j, in invocation order
InvokedNames(j) == [i \in 1..Len(invoked[j]) |-> Stages[invoked[j][i]]]

\* C19: the stages invoked in one process invocation are a prefix of
\* extraction, transcription, detection, analytics, summarisation (fixed
\* order, each at most once, none again after a failure), and analytics is
\* invoked only when transcription and detection were both invoked before it
\* and neither raised.
C19_StageOrder ==
    \A j \in JobIds :
        /\ IsPrefix(InvokedNames(j),
                    <<"extract", "transcribe", "detect", "analytics",
                      "summarise">>)
        /\ (\E i \in 1..Len(invoked[j]) : InvokedNames(j)[i] = "analytics") =>
              /\ \E a, b \in 1..Len(invoked[j]) :
                    /\ InvokedNames(j)[a] = "transcribe"
                    /\ InvokedNames(j)[b] = "detect"
                    /\ \A i \in 1..Len(invoked[j]) :
                          InvokedNames(j)[i] = "analytics" => a < i /\ b < i
              /\ stageFail[j].k > 0 =>
                    Stages[stageFail[j].k] \notin {"transcribe", "detect"}
        /\ stageFail[j].k > 0 =>
              /\ Len(invoked[j]) = stageFail[j].k
              /\ pc[j] \notin {"log_stage", "run_stage"}

\* C19 witness: all five stages were invoked, and in another job a stage
\* raised and the run ended.
C19_Witness ==
    \E a, b \in JobIds :
        /\ Len(invoked[a]) = Len(Stages) /\ stageFail[a].k = 0
        /\ stageFail[b].k > 0 /\ pc[b] = "task_done"

\* C20: while _run_pipeline is at a stage (its log entry or its call), the
\* result write or the completion update, the job's status is processing and
\* the first entry process appended is 'Pipeline started'; no stage is invoked
\* without both.
C20_ProcessingWhileStages ==
    \A j \in JobIds :
        /\ pc[j] \in {"rp_read", "log_stage", "run_stage", "write",
                      "p_complete"} =>
              /\ StatusOf(j) = PROCESSING
              /\ Len(ProcLog(j)) > 0
        /\ Len(invoked[j]) > 0 =>
              /\ Len(ProcLog(j)) > 0
              /\ ProcLog(j)[1] = Info(<<"Pipeline started">>)
              /\ StatusOf(j) # PENDING

\* C20 witness: a stage is executing in a job whose status is processing.
C20_Witness ==
    \E j \in JobIds :
        /\ pc[j] = "run_stage"
        /\ StatusOf(j) = PROCESSING
        /\ ProcLog(j)[1] = Info(<<"Pipeline started">>)

\* C13: building the default components never raises: every field of the
\* returned PipelineComponents is a usable component; transcriber, detector
\* and summariser are the stub variant whenever the production variant cannot
\* be constructed (import or load failure, or no API key), and the production
\* variant otherwise; the audio extractor is always constructed.
C13_BuildNeverFails ==
    result # None =>
        /\ result[1].audio_extractor = "AudioExtractor"
        /\ result[1].transcriber =
              IF args.whisper = "ok" THEN "WhisperTranscriber"
              ELSE "StubTranscriber"
        /\ result[1].detector =
              IF args.ultralytics = "ok" THEN "UltralyticsDetector"
              ELSE "StubDetector"
        /\ result[1].summariser =
              IF args.openai = "ok" /\ args.openai_api_key = "sk-key"
              THEN "OpenAISummariser" ELSE "StubSummariser"

\* C13 witness: no production variant can be constructed (a missing library,
\* a model load failure, a key whose client fails) and the build returned
\* the three stubs.
C13_Witness ==
    /\ result # None
    /\ args.whisper = "import_error"
    /\ args.ultralytics = "load_error"
    /\ args.openai = "import_error" /\ args.openai_api_key = "sk-key"
    /\ result[1].transcriber = "StubTranscriber"
    /\ result[1].detector = "StubDetector"
    /\ result[1].summariser = "StubSummariser"

\* a dict's keys are distinct
DistinctKeys(dict) ==
    \A i, k \in 1..Len(dict) : dict[i].label = dict[k].label => i = k

\* C14: build_timeline returns one entry per transcript segment in transcript
\* order, entry i anchored at segment i's start with segment i's text; for
\* every label its count in entry i is the number of detections with that
\* label and start - window/2 <= timestamp <= end + window/2 (inclusive), a
\* label with no such detection is not a key; an empty transcript gives an
\* empty timeline.
C14_TimelineHistogram ==
    result # None =>
        /\ Len(result[1]) = Len(args.transcript)
        /\ \A i \in 1..Len(result[1]) :
              /\ result[1][i].timestamp = args.transcript[i].start
              /\ result[1][i].transcript = args.transcript[i].text
              /\ DistinctKeys(result[1][i].objects)
              /\ \A k \in 1..Len(result[1][i].objects) :
                    result[1][i].objects[k].count > 0
              /\ \A l \in Labels :
                    Get(result[1][i].objects, l) =
                        Cardinality(
                            {d \in 1..Len(args.detections) :
                                /\ args.detections[d].label = l
                                /\ 2 * args.detections[d].timestamp >=
                                      2 * args.transcript[i].start - args.window
                                /\ 2 * args.detections[d].timestamp <=
                                      2 * args.transcript[i].end + args.window})

\* C14 witness: two segments, the first with a detection exactly on its lower
\* bound start - window/2 counted, the second with no detection in range and
\* an empty histogram.
C14_Witness ==
    /\ result # None
    /\ Len(args.transcript) = 2
    /\ args.window = 2
    /\ args.transcript[1].end = 2 /\ args.transcript[2].start = 2
    /\ Len(args.detections) = 1 /\ args.detections[1].timestamp = 0
    /\ Len(result[1][1].objects) = 1
    /\ result[1][2].objects = << >>

\* number of detections carrying the label
Occurrences(detections, l) ==
    Cardinality({d \in 1..Len(detections) : detections[d].label = l})

\* index of the first detection carrying the label
FirstSeen(detections, l) ==
    CHOOSE d \in 1..Len(detections) :
        /\ detections[d].label = l
        /\ \A c \in 1..(d - 1) : detections[c].label # l

RECURSIVE SumCounts(_)
SumCounts(items) ==
    IF items = << >> THEN 0 ELSE items[1].count + SumCounts(Tail(items))

\* C15: compute_object_frequency returns one entry per distinct label with the
\* number of detections carrying it, ordered by count non-increasing with
\* equal counts in first-seen order of the label, and the counts sum to the
\* number of detections.
C15_FrequencyOrder ==
    result # None =>
        /\ DistinctKeys(result[1])
        /\ {result[1][i].label : i \in 1..Len(result[1])} =
              {args.detections[d].label : d \in 1..Len(args.detections)}
        /\ \A i \in 1..Len(result[1]) :
              result[1][i].count =
                  Occurrences(args.detections, result[1][i].label)
        /\ \A i, k \in 1..Len(result[1]) :
              i < k =>
                  \/ result[1][i].count > result[1][k].count
                  \/ /\ result[1][i].count = result[1][k].count
                     /\ FirstSeen(args.detections, result[1][i].label) <
                           FirstSeen(args.detections, result[1][k].label)
        /\ SumCounts(result[1]) = Len(args.detections)

\* C15 witness: dog and ant tie at one detection each with dog seen first, so
\* the tie is not in alphabetical order, and cat leads with two.
C15_Witness ==
    /\ result # None
    /\ args.detections = << [timestamp |-> 0, label |-> "dog"],
                            [timestamp |-> 0, label |-> "cat"],
                            [timestamp |-> 0, label |-> "ant"],
                            [timestamp |-> 0, label |-> "cat"] >>
    /\ result[1] = << [label |-> "cat", count |-> 2],
                      [label |-> "dog", count |-> 1],
                      [label |-> "ant", count |-> 1] >>

\* the labels to which an entry's dict gives a positive count
Present(entry) ==
    {entry.objects[i].label :
        i \in {k \in 1..Len(entry.objects) : entry.objects[k].count > 0}}

\* C16: every entry compute_co_occurrence emits has exactly two labels, they
\* differ and are in lexicographic order, whatever the order of labels and
\* entries in the input; no pair is emitted twice; a timeline whose entries
\* each hold at most one label yields the empty list.
C16_PairsCanonical ==
    result # None =>
        /\ \A i \in 1..Len(result[1]) :
              result[1][i].labels \in
                  {<<"ant", "cat">>, <<"ant", "dog">>, <<"cat", "dog">>}
        /\ \A i, k \in 1..Len(result[1]) :
              result[1][i].labels = result[1][k].labels => i = k
        /\ (\A n \in 1..Len(args.timeline) :
               Cardinality(Present(args.timeline[n])) <= 1)
              => result[1] = << >>

\* C16 witness: the first entry lists dog before cat and the second lists cat
\* before dog; the single pair emitted is (cat, dog).
C16_Witness ==
    /\ result # None
    /\ Len(args.timeline) = 2
    /\ args.timeline[1].objects = << [label |-> "dog", count |-> 1],
                                     [label |-> "cat", count |-> 2] >>
    /\ args.timeline[2].objects = << [label |-> "cat", count |-> 1],
                                     [label |-> "dog", count |-> 1] >>
    /\ result[1] = << [labels |-> <<"cat", "dog">>, count |-> 2] >>

\* the texts whose lower-cased tokens meet the positive keywords only
PositiveOnly == {<<"Good", " ", "day">>, <<"good", " ", "great">>}

\* the texts whose lower-cased tokens meet the negative keywords only
NegativeOnly == {<<"bad", " ", "day">>, <<" ", "sad", " ", " ">>}

\* C17: compute_sentiment returns one point per segment, in transcript order,
\* anchored at the segment's start; the score (in tenths) is +6 when the
\* lower-cased whitespace tokens meet only the positive keywords, -6 when
\* they meet only the negative ones, and 0 when they meet both or neither.
C17_SentimentScores ==
    result # None =>
        /\ Len(result[1]) = Len(args.transcript)
        /\ \A i \in 1..Len(result[1]) :
              /\ result[1][i].timestamp = args.transcript[i].start
              /\ result[1][i].sentiment =
                    (IF args.transcript[i].text \in PositiveOnly THEN 6
                     ELSE IF args.transcript[i].text \in NegativeOnly THEN 0 - 6
                     ELSE 0)

\* C17 witness: a capitalised positive keyword scores +6 and a text with a
\* keyword of each set scores 0, at the starts 1 and 0 of their segments.
C17_Witness ==
    /\ result # None
    /\ Len(args.transcript) = 2
    /\ args.transcript[1].text = <<"Good", " ", "day">>
    /\ args.transcript[1].start = 1
    /\ args.transcript[2].text = <<"GREAT", " ", "loss">>
    /\ args.transcript[2].start = 0
    /\ result[1] = << [timestamp |-> 1, sentiment |-> 6],
                      [timestamp |-> 0, sentiment |-> 0] >>

\* C18: fetch_job_logs(job_id) returns exactly the entries appended for that
\* job, in the order in which they were appended, whatever their timestamps
\* (equal or not increasing included).
C18_FetchInAppendOrder ==
    [][\A j \in JobIds :
          fetched'[j] # fetched[j] =>
              LET Mine(row) == row.job_id = j
              IN  fetched'[j][1] = SelectSeq(log_table, Mine)]_vars

\* C21: for a job submitted with a remote URL, process is invoked only after
\* the download has finished and the store holds the local file path as the
\* job's source; no stage of such a job reads a source that is still the URL.
C21_SourceMaterialised ==
    \A j \in JobIds :
        (Exists(j) /\ jobs[j].input_type = YOUTUBE) =>
            /\ (calls[j] > 0 \/ InProcess(pc[j])) =>
                  /\ jobs[j].source = TargetPath(j)
                  /\ \E i \in 1..Len(logs[j]) :
                        logs[j][i] = Info(MsgDownloaded)
            /\ source_path[j] \in {None, TargetPath(j)}
            /\ invoked[j] # << >> => source_path[j] = TargetPath(j)

\* C21 witness: a remote-URL job has run its first stage on the local path.
C21_Witness ==
    \E j \in JobIds :
        /\ Exists(j) /\ jobs[j].input_type = YOUTUBE
        /\ invoked[j] # << >>
        /\ source_path[j] = TargetPath(j)
        /\ source_path[j] # RemoteUrl(j)

\* the timeline entries in which both labels of the pair have a positive count
Together(timeline, pair) ==
    {n \in 1..Len(timeline) : {pair[1], pair[2]} \subseteq Present(timeline[n])}

\* position of a pair in the order the loops first meet it: by the first
\* entry holding it, then by its place among that entry's sorted pairs
SeenAt(timeline, pair) ==
    LET first == CHOOSE n \in Together(timeline, pair) :
                    \A m \in Together(timeline, pair) : n <= m
        place == CHOOSE i \in 1..3 :
                    <<<<"ant", "cat">>, <<"ant", "dog">>, <<"cat", "dog">>>>[i]
                        = pair
    IN  3 * first + place

\* C22: the count compute_co_occurrence reports for a pair is the number of
\* timeline entries in which both labels have a positive count, each entry
\* counted once; every pair that occurs together is reported; the output is
\* ordered by count descending, ties in the order the pairs were first seen.
C22_PairCounts ==
    result # None =>
        /\ \A i \in 1..Len(result[1]) :
              result[1][i].count =
                  Cardinality(Together(args.timeline, result[1][i].labels))
        /\ \A pair \in {<<"ant", "cat">>, <<"ant", "dog">>, <<"cat", "dog">>} :
              Together(args.timeline, pair) # {} =>
                  \E i \in 1..Len(result[1]) : result[1][i].labels = pair
        /\ \A i, k \in 1..Len(result[1]) :
              i < k =>
                  \/ result[1][i].count > result[1][k].count
                  \/ /\ result[1][i].count = result[1][k].count
                     /\ SeenAt(args.timeline, result[1][i].labels) <
                           SeenAt(args.timeline, result[1][k].labels)

\* C22 witness: (cat, dog) is met in both entries, the second time with a
\* count of 2, and leads with 2 although it was first seen last; (ant, cat)
\* and (ant, dog) tie at 1 and keep their first-seen order.
C22_Witness ==
    /\ result # None
    /\ Len(args.timeline) = 2
    /\ args.timeline[1].objects = << [label |-> "dog", count |-> 1],
                                     [label |-> "cat", count |-> 1],
                                     [label |-> "ant", count |-> 1] >>
    /\ args.timeline[2].objects = << [label |-> "cat", count |-> 2],
                                     [label |-> "dog", count |-> 1] >>
    /\ result[1] = << [labels |-> <<"cat", "dog">>, count |-> 2],
                      [labels |-> <<"ant", "cat">>, count |-> 1],
                      [labels |-> <<"ant", "dog">>, count |-> 1] >>

\* C23: whenever build_analytics_bundle is given a precomputed timeline, an
\* empty one included, the bundle's co-occurrence list is computed from that
\* timeline and build_timeline is not called; when none is given, the bundle
\* equals the one obtained by supplying build_timeline(transcript,
\* detections, window).
C23_SuppliedTimelineUsed ==
    result # None =>
        /\ args.timeline # None =>
              /\ result[1].co_occurrence =
                    compute_co_occurrence(args.timeline[1])
              /\ result[2] = 0
        /\ args.timeline = None =>
              result[1] =
                  build_analytics_bundle(
                      args.transcript, args.detections, args.window,
                      <<build_timeline(args.transcript, args.detections,
                                       args.window)>>)

\* C24: for every job created through either submission path, process is
\* invoked at most once over the job's life: an invocation starts only when
\* none was made before, no call is in flight and the job is not terminal.
C24_ProcessOnce ==
    /\ [](\A j \in JobIds : calls[j] <= 1)
    /\ [][\A j \in JobIds :
            calls'[j] # calls[j] =>
                /\ calls[j] = 0
                /\ proc[j] = "idle"
                /\ StatusOf(j) \notin Terminal]_vars

\* C24 witness: an upload job and a remote-URL job have both finished their
\* background task, each after one invocation of process, terminal both.
C24_Witness ==
    \E a, b \in JobIds :
        /\ Exists(a) /\ jobs[a].input_type = UPLOAD
        /\ Exists(b) /\ jobs[b].input_type = YOUTUBE
        /\ calls[a] = 1 /\ calls[b] = 1
        /\ pc[a] = "task_done" /\ pc[b] = "task_done"
        /\ StatusOf(a) \in Terminal /\ StatusOf(b) \in Terminal

\* C25: no session is open while a stage or the artifact write executes:
\* every store statement opens its own session and has closed it, committed
\* or rolled back, when it is left; a store statement that raises leaves the
\* job rows unchanged.
C25_ShortSessions ==
    /\ [](\A j \in JobIds :
            /\ pc[j] \in BlockingStatements => session[j] = "closed"
            /\ session[j] = "open" =>
                  pc[j] \in StoreStatements \ BlockingStatements)
    /\ [][\A j \in JobIds :
            /\ (InProcess(pc[j]) /\ pc'[j] # pc[j]) =>
                  /\ session'[j] = "closed"
                  /\ pc[j] \notin BlockingStatements => session[j] = "open"
            /\ (session[j] = "open"
                    /\ pc'[j] = RaiseTarget(pc[j], task[j])) =>
                  jobs' = jobs]_vars

\* C25 witness: one job is running a stage with its session closed after the
\* store statements before it committed; another job's store statement
\* inside process raised and was rolled back.
C25_Witness ==
    \E a, b \in JobIds :
        /\ pc[a] = "run_stage" /\ session[a] = "closed"
        /\ StatusOf(a) = PROCESSING /\ stage[a] = 2
        /\ firstExc[b] = StoreError /\ session[b] = "closed"
        /\ pc[b] = "task_done"

\* C26: when the remote download of a job fails before process is invoked,
\* the download task ends with the job failed, error_message the failure's
\* message, result_path unset, one ERROR entry in the job's log and no stage
\* run.
C26_DownloadFailureMarksFailed ==
    [][\A j \in JobIds :
          (/\ pc[j] \in {"yh_update", "yh_log"}
           /\ exc[j] = DownloadError
           /\ pc'[j] = "task_raised") =>
              /\ jobs'[j].status = FAILED
              /\ jobs'[j].error_message = DownloadError
              /\ jobs'[j].result_path = None
              /\ Cardinality({i \in 1..Len(logs'[j]) :
                                 logs'[j][i].level = "ERROR"}) = 1
              /\ invoked'[j] = << >>
              /\ calls'[j] = 0]_vars

====
